---- MODULE Spec2Model ----
(***************************************************************************)
(* A model of the immutable CPF value object (class CPF).                  *)
(*                                                                         *)
(* The heap is the sequence of CPF instances that exist; an instance is    *)
(* known by its position in the heap (its reference).  heap[Nil] is the    *)
(* instance the static initialiser `CPF.Nil = new CPF([])` creates.        *)
(* `last` records the last call: its name, receiver, argument and result.  *)
(*                                                                         *)
(* JavaScript numbers are modelled in sign/magnitude form so that          *)
(* Math.trunc and the sign-preserving remainder % are real conversions:    *)
(*   [k |-> "fin", neg, int, frac]  is  +/-(int + f), 0 < f < 1 iff frac   *)
(*   [k |-> "inf", neg, ...]        is  +/-Infinity                        *)
(*   [k |-> "nan", ...]             is  NaN                                *)
(* A stored digit is kept as its magnitude: -0 and 0 are the same digit    *)
(* for ===, for join('') and for the checksum arithmetic.                  *)
(***************************************************************************)
EXTENDS Integers, Sequences, FiniteSets, TLC

VARIABLES heap, last

vars == <<heap, last>>

(***************************************************************************)
(* Bounds of the model.                                                    *)
(***************************************************************************)
\* instances besides CPF.Nil that the two-instance specification may hold
MaxObjects == 2
\* longest input handed to the constructor
MaxInputLen == 13

\* at() is called with the indexes -MaxIndex .. MaxIndex
MaxIndex == 12

(***************************************************************************)
(* JavaScript numbers.                                                     *)
(***************************************************************************)
NaN == [k |-> "nan", neg |-> FALSE, int |-> 0, frac |-> FALSE]

PosInf == [k |-> "inf", neg |-> FALSE, int |-> 0, frac |-> FALSE]

NegInf == [k |-> "inf", neg |-> TRUE, int |-> 0, frac |-> FALSE]

\* the integer i
Num(i) == [k |-> "fin", neg |-> i < 0, int |-> IF i < 0 THEN -i ELSE i, frac |-> FALSE]

\* a number strictly between i and i + 1 (i >= 0)
Above(i) == [k |-> "fin", neg |-> FALSE, int |-> i, frac |-> TRUE]

\* a number strictly between -(i + 1) and -i (i >= 0)
Below(i) == [k |-> "fin", neg |-> TRUE, int |-> i, frac |-> TRUE]

\* the digit sequence ds as an array of numbers
nums(ds) == [i \in 1..Len(ds) |-> Num(ds[i])]

isFinite(x) == x.k = "fin"

isNaN(x) == x.k = "nan"

\* Math.trunc: drops the fraction, keeps the sign (so -0.5 gives -0)
trunc(x) == IF x.k = "fin" THEN [x EXCEPT !.frac = FALSE] ELSE x

\* x % m for a positive integer m: the result has the sign of x
rem(x, m) == IF x.k = "fin" THEN [x EXCEPT !.int = x.int % m] ELSE NaN

\* x < 0 (false for -0 and for NaN)
ltZero(x) ==
  \/ x.k = "inf" /\ x.neg
  \/ x.k = "fin" /\ x.neg /\ (x.int > 0 \/ x.frac)

\* x > 9
gtNine(x) ==
  \/ x.k = "inf" /\ ~x.neg
  \/ x.k = "fin" /\ ~x.neg /\ (x.int > 9 \/ (x.int = 9 /\ x.frac))

\* a === b on numbers: NaN equals nothing, -0 equals 0
strictEq(a, b) ==
  /\ a.k # "nan" /\ b.k # "nan"
  /\ a.k = b.k
  /\ a.int = b.int /\ a.frac = b.frac
  /\ (a.neg = b.neg \/ (a.k = "fin" /\ a.int = 0 /\ ~a.frac))

(***************************************************************************)
(* The constructor.                                                        *)
(***************************************************************************)
Null == [set |-> FALSE, v |-> 0]

Nil == 1

RECURSIVE collectKeepNegative(_, _, _)
\* collect without the digit < 0 test: a negative remainder is stored
collectKeepNegative(numbers, i, acc) ==
  IF i > Len(numbers) THEN acc
  ELSE LET digit == rem(trunc(numbers[i]), 10) IN
       IF isNaN(digit) \/ gtNine(digit)
       THEN collectKeepNegative(numbers, i + 1, acc)
       ELSE LET pushed == Append(acc, IF digit.neg THEN -digit.int ELSE digit.int) IN
            IF Len(pushed) = 11 THEN pushed
            ELSE collectKeepNegative(numbers, i + 1, pushed)

RECURSIVE collectNoMod(_, _, _)
\* collect without % 10: a value above 9 is skipped, not reduced
collectNoMod(numbers, i, acc) ==
  IF i > Len(numbers) THEN acc
  ELSE LET digit == trunc(numbers[i]) IN
       IF ~isFinite(digit) \/ ltZero(digit) \/ gtNine(digit)
       THEN collectNoMod(numbers, i + 1, acc)
       ELSE LET pushed == Append(acc, digit.int) IN
            IF Len(pushed) = 11 THEN pushed
            ELSE collectNoMod(numbers, i + 1, pushed)

RECURSIVE collectFirstEleven(_, _, _)
\* collect over the first 11 input values only: a skipped value uses a slot
collectFirstEleven(numbers, i, acc) ==
  IF i > Len(numbers) \/ i > 11 THEN acc
  ELSE LET digit == rem(trunc(numbers[i]), 10) IN
       IF isNaN(digit) \/ ltZero(digit) \/ gtNine(digit)
       THEN collectFirstEleven(numbers, i + 1, acc)
       ELSE collectFirstEleven(numbers, i + 1, Append(acc, digit.int))

RECURSIVE collectNoBreak(_, _, _)
\* the loop without `if (this.#digits.length === 11) break`
collectNoBreak(numbers, i, acc) ==
  IF i > Len(numbers) THEN acc
  ELSE LET digit == rem(trunc(numbers[i]), 10) IN
       IF isNaN(digit) \/ ltZero(digit) \/ gtNine(digit)
       THEN collectNoBreak(numbers, i + 1, acc)
       ELSE collectNoBreak(numbers, i + 1, Append(acc, digit.int))

RECURSIVE collect(_, _, _)
\* the constructor's loop from input position i on, acc being this.#digits
collect(numbers, i, acc) ==
  IF i > Len(numbers) THEN acc
  ELSE LET digit == rem(trunc(numbers[i]), 10) IN
       IF isNaN(digit) \/ ltZero(digit) \/ gtNine(digit)
       THEN collect(numbers, i + 1, acc)
       ELSE LET pushed == Append(acc, digit.int) IN
            IF Len(pushed) = 11 THEN pushed
            ELSE collect(numbers, i + 1, pushed)

\* the constructor without `return CPF.Nil`: an empty instance of its own
constructorAlwaysFresh(h, numbers) ==
  [heap |-> Append(h, [digits |-> collect(numbers, 1, <<>>), hashCode |-> Null]),
   ref |-> Len(h) + 1]

\* new CPF(numbers) on heap h: the heap afterwards and the reference returned
constructor(h, numbers) ==
  LET digits == collect(numbers, 1, <<>>) IN
  IF Len(digits) = 0
  THEN [heap |-> h, ref |-> Nil]
  ELSE [heap |-> Append(h, [digits |-> digits, hashCode |-> Null]),
        ref |-> Len(h) + 1]

(***************************************************************************)
(* Check digits and validity.                                              *)
(***************************************************************************)
RECURSIVE weightedFromEnd(_, _, _, _)
\* the loop with the weight (end - index): one less than the code's
weightedFromEnd(digits, index, end, acc) ==
  IF index < end
  THEN weightedFromEnd(digits, index + 1, end, acc + digits[index + 1] * (end - index))
  ELSE acc

RECURSIVE weighted(_, _, _, _)
\* the loop of getCheckDigit: acc after the indexes index..end-1 (0-based)
weighted(digits, index, end, acc) ==
  IF index < end
  THEN weighted(digits, index + 1, end, acc + digits[index + 1] * (end + 1 - index))
  ELSE acc

\* getCheckDigit with `rem < 1`: a remainder of 1 gives 10
getCheckDigitTen(digits, start, end) ==
  LET rem11 == weighted(digits, start, end, 0) % 11 IN
  IF rem11 < 1 THEN 0 ELSE 11 - rem11

getCheckDigit(digits, start, end) ==
  LET rem11 == weighted(digits, start, end, 0) % 11 IN
  IF rem11 < 2 THEN 0 ELSE 11 - rem11

\* this.#digits.every((digit) => digit === this.#digits[0])
everySame(digits) == \A i \in 1..Len(digits) : digits[i] = digits[1]

\* getValidity with tooShort = (length < 11), the empty instance included
getValidityShortEmpty(digits) ==
  [valueMissing |-> Len(digits) = 0,
   tooShort |-> Len(digits) < 11,
   typeMismatch |->
     /\ Len(digits) = 11
     /\ \/ everySame(digits)
        \/ getCheckDigit(digits, 0, 9) # digits[10]
        \/ getCheckDigit(digits, 0, 10) # digits[11]]

\* getValidity without the rule on identical digits
getValidityChecksumOnly(digits) ==
  [valueMissing |-> Len(digits) = 0,
   tooShort |-> Len(digits) > 0 /\ Len(digits) < 11,
   typeMismatch |->
     /\ Len(digits) = 11
     /\ \/ getCheckDigit(digits, 0, 9) # digits[10]
        \/ getCheckDigit(digits, 0, 10) # digits[11]]

\* getValidity that compares the first check digit only
getValidityFirstCheck(digits) ==
  [valueMissing |-> Len(digits) = 0,
   tooShort |-> Len(digits) > 0 /\ Len(digits) < 11,
   typeMismatch |->
     /\ Len(digits) = 11
     /\ \/ everySame(digits)
        \/ getCheckDigit(digits, 0, 9) # digits[10]]

\* getValidity whose typeMismatch forgets the test on the length
getValidityAnyLength(digits) ==
  [valueMissing |-> Len(digits) = 0,
   tooShort |-> Len(digits) > 0 /\ Len(digits) < 11,
   typeMismatch |->
     \/ everySame(digits)
     \/ Len(digits) = 11 /\ getCheckDigit(digits, 0, 9) # digits[10]
     \/ Len(digits) = 11 /\ getCheckDigit(digits, 0, 10) # digits[11]]

getValidity(digits) ==
  LET valueMissing == Len(digits) = 0
      tooShort == Len(digits) > 0 /\ Len(digits) < 11
      typeMismatch ==
        /\ Len(digits) = 11
        /\ \/ everySame(digits)
           \/ getCheckDigit(digits, 0, 9) # digits[10]
           \/ getCheckDigit(digits, 0, 10) # digits[11]
  IN [valueMissing |-> valueMissing, tooShort |-> tooShort,
      typeMismatch |-> typeMismatch]

\* checkValidity that forgets typeMismatch
checkValidityLengthOnly(digits) ==
  LET v == [valueMissing |-> Len(digits) = 0,
            tooShort |-> Len(digits) > 0 /\ Len(digits) < 11]
  IN ~(v.valueMissing \/ v.tooShort)

checkValidity(digits) ==
  LET v == getValidity(digits) IN
  ~(v.valueMissing \/ v.tooShort \/ v.typeMismatch)

(***************************************************************************)
(* Hashing and equality.                                                   *)
(***************************************************************************)
\* the number of hash values; narrowed from 2^32 in proportion to the number
\* of instances modelled, so that distinct digit sequences do collide
HashWidth == 64

RECURSIVE hashFrom(_, _, _)
hashFrom(values, i, h) ==
  IF i > Len(values) THEN h
  ELSE hashFrom(values, i + 1, (h * 31 + values[i] + 1) % HashWidth)

\* cruxhash's hashSequence: a hash of the values in order, from a seed; a
\* function of the values and the seed alone
hashSequence(values, start) == hashFrom(values, 1, start)

\* getSeed('CPF'): the seed of the name, here from its character codes
seed == hashSequence(<<67, 80, 70>>, 0)

\* hashCode that computes the hash at every call and stores nothing
hashCodeNoCache(h, o) ==
  [heap |-> h, ret |-> hashSequence(h[o].digits, seed)]

\* hashCode that hashes the reference along with the digits
hashCodeByIdentity(h, o) ==
  IF ~h[o].hashCode.set
  THEN LET v == hashSequence(h[o].digits, seed + o) IN
       [heap |-> [h EXCEPT ![o].hashCode = [set |-> TRUE, v |-> v]], ret |-> v]
  ELSE [heap |-> h, ret |-> h[o].hashCode.v]

\* o.hashCode() on heap h: the heap afterwards and the value returned
hashCode(h, o) ==
  IF ~h[o].hashCode.set
  THEN LET v == hashSequence(h[o].digits, seed) IN
       [heap |-> [h EXCEPT ![o].hashCode = [set |-> TRUE, v |-> v]], ret |-> v]
  ELSE [heap |-> h, ret |-> h[o].hashCode.v]

\* values handed to equals: a CPF reference, or something that is no CPF
Ref(o) == [t |-> "CPF", id |-> o]

NonCPF == {[t |-> "null", id |-> 0], [t |-> "undefined", id |-> 0],
           [t |-> "string", id |-> 0]}

\* this.#digits.every((digit, index) => other.#digits[index] === digit)
everyEqual(mine, theirs) ==
  \A i \in 1..Len(mine) : i <= Len(theirs) /\ theirs[i] = mine[i]

\* equals that trusts the hash and the length, without comparing the digits
equalsByHash(h, o, other) ==
  IF other = Ref(o) THEN [heap |-> h, ret |-> TRUE]
  ELSE IF other.t # "CPF" THEN [heap |-> h, ret |-> FALSE]
  ELSE LET mine == hashCode(h, o)
           theirs == hashCode(mine.heap, other.id)
       IN [heap |-> theirs.heap,
           ret |-> /\ mine.ret = theirs.ret
                   /\ Len(h[o].digits) = Len(h[other.id].digits)]

\* o.equals(other) on heap h, with the short circuits of || and &&
equals(h, o, other) ==
  IF other = Ref(o) THEN [heap |-> h, ret |-> TRUE]
  ELSE IF other.t # "CPF" THEN [heap |-> h, ret |-> FALSE]
  ELSE LET mine == hashCode(h, o)
           theirs == hashCode(mine.heap, other.id)
       IN [heap |-> theirs.heap,
           ret |-> /\ mine.ret = theirs.ret
                   /\ Len(h[o].digits) = Len(h[other.id].digits)
                   /\ everyEqual(h[o].digits, h[other.id].digits)]

(***************************************************************************)
(* Indexed access and replacement.                                         *)
(***************************************************************************)
Undefined == [def |-> FALSE, v |-> 0]

Some(d) == [def |-> TRUE, v |-> d]

\* the 0-based position Array.prototype.at / with give to an integer index
relative(digits, index) == IF index >= 0 THEN index ELSE Len(digits) + index

\* at that indexes the array directly: nothing at a negative index
atNoNegative(digits, index) ==
  IF index >= 0 /\ index < Len(digits) THEN Some(digits[index + 1]) ELSE Undefined

\* cpf.at(index), this.#digits.at(index)
at(digits, index) ==
  LET k == relative(digits, index) IN
  IF k >= 0 /\ k < Len(digits) THEN Some(digits[k + 1]) ELSE Undefined

\* with that overwrites the digit in the instance itself and returns it
withInPlace(h, o, index, digit) ==
  LET current == rem(trunc(digit), 10)
      k == relative(h[o].digits, index)
  IN
  IF k < 0 \/ k >= Len(h[o].digits)
  THEN [heap |-> h, ref |-> 0, threw |-> "RangeError"]
  ELSE IF isNaN(current) \/ ltZero(current) \/ gtNine(current)
  THEN [heap |-> h, ref |-> o, threw |-> "none"]
  ELSE [heap |-> [h EXCEPT ![o].digits[k + 1] = current.int],
        ref |-> o, threw |-> "none"]

\* with that never returns `this`: an equal copy when nothing changes
withAlwaysCopy(h, o, index, digit) ==
  LET current == rem(trunc(digit), 10)
      k == relative(h[o].digits, index)
  IN
  IF k < 0 \/ k >= Len(h[o].digits)
  THEN [heap |-> h, ref |-> 0, threw |-> "RangeError"]
  ELSE LET digits == [nums(h[o].digits) EXCEPT ![k + 1] = current]
           r == constructor(h, digits)
       IN [heap |-> r.heap, ref |-> r.ref, threw |-> "none"]

\* with that clamps an index past the end to the last digit
withClamped(h, o, index, digit) ==
  LET current == rem(trunc(digit), 10)
      n == Len(h[o].digits)
      k == IF relative(h[o].digits, index) >= n /\ n > 0 THEN n - 1
           ELSE relative(h[o].digits, index)
  IN
  IF k < 0 \/ k >= n
  THEN [heap |-> h, ref |-> 0, threw |-> "RangeError"]
  ELSE IF strictEq(Num(h[o].digits[k + 1]), current)
  THEN [heap |-> h, ref |-> o, threw |-> "none"]
  ELSE LET digits == [nums(h[o].digits) EXCEPT ![k + 1] = current]
           r == constructor(h, digits)
       IN [heap |-> r.heap, ref |-> r.ref, threw |-> "none"]

\* o.with(index, digit) on heap h: heap, reference returned, error thrown
with(h, o, index, digit) ==
  LET current == rem(trunc(digit), 10)
      previous == at(h[o].digits, index)
      k == relative(h[o].digits, index)
  IN
  IF previous.def /\ strictEq(Num(previous.v), current)
  THEN [heap |-> h, ref |-> o, threw |-> "none"]
  ELSE IF k < 0 \/ k >= Len(h[o].digits)
  THEN [heap |-> h, ref |-> 0, threw |-> "RangeError"]
  ELSE LET digits == [nums(h[o].digits) EXCEPT ![k + 1] = current]
           r == constructor(h, digits)
       IN [heap |-> r.heap, ref |-> r.ref, threw |-> "none"]

(***************************************************************************)
(* Strings, CPF.from and CPF.create.                                       *)
(***************************************************************************)
DigitChars == <<"0", "1", "2", "3", "4", "5", "6", "7", "8", "9">>

isDigitChar(c) == \E d \in 1..Len(DigitChars) : DigitChars[d] = c

\* Number.parseInt(c, 10) of a one-character string
parseInt(c) ==
  IF isDigitChar(c)
  THEN Num((CHOOSE d \in 1..Len(DigitChars) : DigitChars[d] = c) - 1)
  ELSE NaN

\* canonical decomposition of one character: "e_acute" is U+00E9
decompose(c) == IF c = "e_acute" THEN <<"e", "acute">> ELSE <<c>>

RECURSIVE normalize(_)
\* formatted.normalize('NFD')
normalize(str) ==
  IF Len(str) = 0 THEN <<>> ELSE decompose(Head(str)) \o normalize(Tail(str))

\* str.replace(/\D/g, '')
stripNonDigits(str) == SelectSeq(str, isDigitChar)

\* str.substring(0, n)
substring(str, n) == SubSeq(str, 1, IF Len(str) < n THEN Len(str) ELSE n)

\* from that cuts the text to eleven characters before it strips it
fromTruncateFirst(h, formatted) ==
  LET stripped == stripNonDigits(substring(normalize(formatted), 11)) IN
  IF Len(stripped) = 0 THEN [heap |-> h, ref |-> Nil]
  ELSE LET digits == [i \in 1..Len(stripped) |-> rem(parseInt(stripped[i]), 10)]
       IN constructor(h, digits)

\* CPF.from(formatted) on heap h
from(h, formatted) ==
  LET stripped == stripNonDigits(normalize(formatted)) IN
  IF Len(stripped) = 0 THEN [heap |-> h, ref |-> Nil]
  ELSE LET chars == substring(stripped, 11)
           digits == [i \in 1..Len(chars) |-> rem(parseInt(chars[i]), 10)]
       IN constructor(h, digits)

\* create that takes the second check digit over the nine digits again
createCheckOverNine(h, random) ==
  LET nine == [i \in 1..9 |-> trunc(random[i]).int]
      ten == Append(nine, getCheckDigit(nine, 0, Len(nine)))
      eleven == Append(ten, getCheckDigit(ten, 0, Len(nine)))
  IN constructor(h, nums(eleven))

\* create that pushes one check digit only
createTenDigits(h, random) ==
  LET nine == [i \in 1..9 |-> trunc(random[i]).int]
      ten == Append(nine, getCheckDigit(nine, 0, Len(nine)))
  IN constructor(h, nums(ten))

\* CPF.create() on heap h; random[i] is the i-th value of Math.random() * 10
create(h, random) ==
  LET nine == [i \in 1..9 |-> trunc(random[i]).int]
      ten == Append(nine, getCheckDigit(nine, 0, Len(nine)))
      eleven == Append(ten, getCheckDigit(ten, 0, Len(ten)))
  IN constructor(h, nums(eleven))

(***************************************************************************)
(* Text and array views of an instance.                                    *)
(***************************************************************************)
\* String(d) of a stored digit
String(d) == DigitChars[d + 1]

\* items.slice(start, end)
slice(items, start, end) ==
  SubSeq(items, start + 1, IF Len(items) < end THEN Len(items) ELSE end)

RECURSIVE join(_, _)
\* items.join(separator)
join(items, separator) ==
  IF Len(items) = 0 THEN <<>>
  ELSE IF Len(items) = 1 THEN <<String(items[1])>>
  ELSE <<String(items[1])>> \o separator \o join(Tail(items), separator)

\* format that returns before it appends a separator nothing follows
formatNoTrailing(digits) ==
  LET first == join(slice(digits, 0, 3), <<>>)
      second == first \o <<".">> \o join(slice(digits, 3, 6), <<>>)
      third == second \o <<".">> \o join(slice(digits, 6, 9), <<>>)
  IN
  IF Len(digits) <= 3 THEN first
  ELSE IF Len(digits) <= 6 THEN second
  ELSE IF Len(digits) <= 9 THEN third
  ELSE third \o <<"-">> \o join(slice(digits, 9, 11), <<>>)

\* format whose last group is slice(9, 10): the eleventh digit is lost
formatShortTail(digits) ==
  LET first == join(slice(digits, 0, 3), <<>>)
      second == first \o <<".">> \o join(slice(digits, 3, 6), <<>>)
      third == second \o <<".">> \o join(slice(digits, 6, 9), <<>>)
  IN
  IF Len(digits) < 3 THEN first
  ELSE IF Len(digits) < 6 THEN second
  ELSE IF Len(digits) < 9 THEN third
  ELSE third \o <<"-">> \o join(slice(digits, 9, 10), <<>>)

\* cpf.format()
format(digits) ==
  LET first == join(slice(digits, 0, 3), <<>>)
      second == first \o <<".">> \o join(slice(digits, 3, 6), <<>>)
      third == second \o <<".">> \o join(slice(digits, 6, 9), <<>>)
  IN
  IF Len(digits) < 3 THEN first
  ELSE IF Len(digits) < 6 THEN second
  ELSE IF Len(digits) < 9 THEN third
  ELSE third \o <<"-">> \o join(slice(digits, 9, 11), <<>>)

RECURSIVE dropLeadingZeros(_)
dropLeadingZeros(str) ==
  IF Len(str) > 1 /\ Head(str) = "0" THEN dropLeadingZeros(Tail(str)) ELSE str

\* toJSON that serialises the digits as one number: leading zeros are lost
toJSONAsNumber(digits) == dropLeadingZeros(join(digits, <<>>))

\* toJSON with join's default separator
toJSONWithCommas(digits) == join(digits, <<",">>)

\* cpf.toJSON()
toJSON(digits) == join(digits, <<>>)

\* [...cpf]: the values the iterator yields, one per digit, in order
iterate(digits) == [i \in 1..Len(digits) |-> digits[i]]

\* an array the caller holds: own says it is the instance's #digits array itself
Array(items, own) == [items |-> items, own |-> own]

\* toArray that hands out the instance's #digits array
toArrayOwn(digits) == Array(digits, TRUE)

\* cpf.toArray(): Array.from makes a new array of the same elements
toArray(digits) == Array(digits, FALSE)

(***************************************************************************)
(* Inputs.                                                                 *)
(***************************************************************************)
Valid == <<3, 1, 6, 7, 5, 7, 4, 5, 5, 0, 1>>

Invalid == <<3, 1, 6, 7, 5, 7, 4, 5, 5, 1, 2>>

Semi == <<3, 1, 6, 7>>

\* n numbers that repeat the digits of base
cyc(base, n) == [i \in 1..n |-> Num(base[((i - 1) % Len(base)) + 1])]

\* n copies of the number x
copies(x, n) == [i \in 1..n |-> x]

\* values that are no digit: non-finite, negative, fractional, large
Odd == {NaN, PosInf, NegInf, Num(-3), Below(0), Num(-10), Below(12),
        Above(13), Num(105), Above(2)}

Skipped == {NaN, NegInf, Num(-3)}

Plain ==
  {cyc(b, n) : b \in {Valid, Invalid}, n \in 0..MaxInputLen}
    \cup {copies(Num(d), n) : d \in 0..9, n \in 1..MaxInputLen}

\* the inputs of s with one value replaced by a value of ws
replaced(s, ws) == {[s EXCEPT ![p] = w] : p \in 1..Len(s), w \in ws}

OneOdd == UNION {replaced(cyc(b, n), Odd) : b \in {Valid, Invalid}, n \in 1..MaxInputLen}

TwoOdd ==
  UNION {UNION {replaced(t, Skipped) : t \in replaced(cyc(Valid, n), Skipped)} :
           n \in {2, 11, MaxInputLen}}

\* the arrays of the constructor tests
TestArrays ==
  {<<Above(3), Num(1), Above(6), Num(7), Above(5), Num(7), Num(4), Above(5),
     Num(5), Num(1), Above(2)>>,
   <<Above(13), Num(11), Num(26), Num(77), Num(105), NaN, Num(7), Num(4),
     Above(5), Num(55), PosInf, Num(1), Above(2)>>,
   <<Above(3), Above(1), Above(6), Num(7), Num(5), PosInf, Num(7), Num(4),
     Num(45), Above(5), NaN, Num(11), Above(2)>>}

\* finite values of every kind in one array: -3, 13.5, -0.5, 105, -10, -12.5, 7
Mixed ==
  <<Num(-3), Above(13), Below(0), Num(105), Num(-10), Below(12), Num(7)>>

Inputs == Plain \cup OneOdd \cup TwoOdd \cup TestArrays \cup {Mixed}

SmallInputs ==
  {<<>>, nums(Semi), cyc(Valid, MaxInputLen), <<NaN, Num(-3)>>,
   <<Below(0), PosInf, Num(-10)>>}

Strings ==
  {<<>>, <<"a", "a", "a">>, <<"emdash">>, <<"3", "1", "6", "7">>,
   <<"3", ",", " ", "1", ",", " ", "6", ",", " ", "7">>,
   <<"3", "1", " ", "a", "b", "6", "emdash", " ", "7">>,
   <<"3", "1", "6", ".", "7", "5", "7", ".", "4", "5", "5", "-", "0", "1">>,
   <<"3", "1", "6", "a", "7", "5", "7", "emdash", "4", "5", "5", "z", "1", "2",
     "0", "0">>,
   <<"e_acute", "0", "e_acute", "9", "-">>}

SmallStrings ==
  {<<"a", "a", "a">>, <<"3", "1", "6", ".", "7">>, <<"e_acute", "2", "-", "2">>}

\* nine values of Math.random() * 10: a in the first k places, b in the rest
Randoms ==
  {[i \in 1..9 |-> IF i <= k THEN Above(a) ELSE Num(b)] :
     a \in 0..9, b \in 0..9, k \in 0..9}
    \cup {[i \in 1..9 |-> Above(Valid[i])]}

SmallRandoms == {copies(Num(0), 9), [i \in 1..9 |-> Above(Valid[i])]}

Indexes == {-12, -1, 0, 2, 11}

Replacements == {Above(1), Num(-3), NaN}

(***************************************************************************)
(* The calls.                                                              *)
(***************************************************************************)
Init ==
  /\ heap = <<[digits |-> <<>>, hashCode |-> Null]>>
  /\ last = [op |-> "init", self |-> 0, arg |-> <<>>, ret |-> Nil, threw |-> "none"]

CallNew(numbers) ==
  LET r == constructor(heap, numbers) IN
  /\ heap' = r.heap
  /\ last' = [op |-> "new", self |-> 0, arg |-> numbers, ret |-> r.ref,
              threw |-> "none"]

CallFrom(formatted) ==
  LET r == from(heap, formatted) IN
  /\ heap' = r.heap
  /\ last' = [op |-> "from", self |-> 0, arg |-> formatted, ret |-> r.ref,
              threw |-> "none"]

CallCreate(random) ==
  LET r == create(heap, random) IN
  /\ heap' = r.heap
  /\ last' = [op |-> "create", self |-> 0, arg |-> random, ret |-> r.ref,
              threw |-> "none"]

CallWith(o, index, digit) ==
  LET r == with(heap, o, index, digit) IN
  /\ heap' = r.heap
  /\ last' = [op |-> "with", self |-> o, arg |-> <<index, digit>>,
              ret |-> r.ref, threw |-> r.threw]

CallEquals(o, other) ==
  LET r == equals(heap, o, other) IN
  /\ heap' = r.heap
  /\ last' = [op |-> "equals", self |-> o, arg |-> other, ret |-> r.ret,
              threw |-> "none"]

CallHashCode(o) ==
  LET r == hashCode(heap, o) IN
  /\ heap' = r.heap
  /\ last' = [op |-> "hashCode", self |-> o, arg |-> <<>>, ret |-> r.ret,
              threw |-> "none"]

CallGetValidity(o) ==
  /\ last' = [op |-> "getValidity", self |-> o, arg |-> <<>>,
              ret |-> getValidity(heap[o].digits), threw |-> "none"]
  /\ UNCHANGED heap

CallCheckValidity(o) ==
  /\ last' = [op |-> "checkValidity", self |-> o, arg |-> <<>>,
              ret |-> checkValidity(heap[o].digits), threw |-> "none"]
  /\ UNCHANGED heap

Objects == 1..Len(heap)

\* fewer than cap instances besides CPF.Nil exist: a call may create one
HasRoom(cap) == Len(heap) <= cap

\* a program that holds up to MaxObjects instances, derives instances from
\* them, compares them and hashes them
Next ==
  \/ HasRoom(MaxObjects) /\ \E numbers \in SmallInputs : CallNew(numbers)
  \/ HasRoom(MaxObjects) /\ \E formatted \in SmallStrings : CallFrom(formatted)
  \/ HasRoom(MaxObjects) /\ \E random \in SmallRandoms : CallCreate(random)
  \/ HasRoom(MaxObjects) /\ \E o \in Objects, index \in Indexes, digit \in Replacements :
       CallWith(o, index, digit)
  \/ \E o \in Objects, other \in {Ref(p) : p \in Objects} \cup NonCPF :
       CallEquals(o, other)
  \/ \E o \in Objects : CallHashCode(o)

Spec == Init /\ [][Next]_vars

\* no call has been made since the class was initialised
Untouched == last.op = "init"

\* a program whose first call builds an instance from any input, and which
\* then inspects what it got
NextSingle ==
  \/ Untouched /\ \E numbers \in Inputs : CallNew(numbers)
  \/ Untouched /\ \E formatted \in Strings : CallFrom(formatted)
  \/ Untouched /\ \E random \in Randoms : CallCreate(random)
  \/ \E o \in Objects : CallHashCode(o)
  \/ \E o \in Objects : CallGetValidity(o)
  \/ \E o \in Objects : CallCheckValidity(o)

SpecSingle == Init /\ [][NextSingle]_vars

(***************************************************************************)
(* Reading an instance: at, toArray, toJSON, format, and parsing the text  *)
(* back.                                                                   *)
(***************************************************************************)
CallAt(o, index) ==
  /\ last' = [op |-> "at", self |-> o, arg |-> <<index>>,
              ret |-> at(heap[o].digits, index), threw |-> "none"]
  /\ UNCHANGED heap

CallToArray(o) ==
  /\ last' = [op |-> "toArray", self |-> o, arg |-> <<>>,
              ret |-> toArray(heap[o].digits), threw |-> "none"]
  /\ UNCHANGED heap

\* the caller's `array[index] = digit` on the array toArray() returned; a write
\* into the instance's own array would show in the instance
CallArraySet(index, digit) ==
  /\ last.op \in {"toArray", "set"}
  /\ index < Len(last.ret.items)
  /\ LET items == [last.ret.items EXCEPT ![index + 1] = digit] IN
     /\ last' = [op |-> "set", self |-> last.self, arg |-> <<index, digit>>,
                 ret |-> Array(items, last.ret.own), threw |-> "none"]
     /\ heap' = IF last.ret.own
                THEN [heap EXCEPT ![last.self].digits = items]
                ELSE heap

CallToJSON(o) ==
  /\ last' = [op |-> "toJSON", self |-> o, arg |-> <<>>,
              ret |-> toJSON(heap[o].digits), threw |-> "none"]
  /\ UNCHANGED heap

CallFormat(o) ==
  /\ last' = [op |-> "format", self |-> o, arg |-> <<>>,
              ret |-> format(heap[o].digits), threw |-> "none"]
  /\ UNCHANGED heap

AtIndexes == -MaxIndex..MaxIndex

\* positions and digits the caller writes into a returned array
SetIndexes == {0, 10}

SetDigits == {0, 9}

ReadInputs == Plain \cup TestArrays \cup {Mixed}

\* a program whose first call builds an instance, and which then reads it:
\* digit by digit, as an array it goes on to change, and as text it parses back
NextRead ==
  \/ Untouched /\ \E numbers \in ReadInputs : CallNew(numbers)
  \/ \E o \in Objects, index \in AtIndexes : CallAt(o, index)
  \/ \E o \in Objects : CallToArray(o)
  \/ \E index \in SetIndexes, digit \in SetDigits : CallArraySet(index, digit)
  \/ \E o \in Objects : CallToJSON(o)
  \/ \E o \in Objects : CallFormat(o)
  \/ HasRoom(MaxObjects) /\ last.op \in {"toJSON", "format"} /\ CallFrom(last.ret)

SpecRead == Init /\ [][NextRead]_vars

(***************************************************************************)
(* Two callers inside hashCode() on one instance, statement by statement:  *)
(* the test of the cache, the assignment, the return.                      *)
(***************************************************************************)
Callers == {1, 2}

\* an assignment that mixes the value into a cache that is already set
assignCacheMixed(cache, v) ==
  IF cache.set THEN [set |-> TRUE, v |-> (cache.v + v + 1) % HashWidth]
  ELSE [set |-> TRUE, v |-> v]

\* this.#hashCode = v
assignCache(cache, v) == [set |-> TRUE, v |-> v]

\* both callers enter o.hashCode(); pc is the statement each one is at, unset
\* whether its test found the cache unset, ret what it returned
RaceStart(o) ==
  /\ last.op = "new"
  /\ last' = [op |-> "race", self |-> o,
              arg |-> [pc |-> <<"test", "test">>, unset |-> <<FALSE, FALSE>>],
              ret |-> <<Null, Null>>, threw |-> "none"]
  /\ UNCHANGED heap

\* if (this.#hashCode == null)
RaceTest(c) ==
  /\ last.op = "race" /\ last.arg.pc[c] = "test"
  /\ last' = [last EXCEPT
                !.arg.pc[c] = IF heap[last.self].hashCode.set THEN "return"
                              ELSE "assign",
                !.arg.unset[c] = ~heap[last.self].hashCode.set]
  /\ UNCHANGED heap

\* this.#hashCode = hashSequence(this.#digits, CPF.#seed)
RaceAssign(c) ==
  /\ last.op = "race" /\ last.arg.pc[c] = "assign"
  /\ heap' = [heap EXCEPT ![last.self].hashCode =
                assignCache(@, hashSequence(heap[last.self].digits, seed))]
  /\ last' = [last EXCEPT !.arg.pc[c] = "return"]

\* return this.#hashCode
RaceReturn(c) ==
  /\ last.op = "race" /\ last.arg.pc[c] = "return"
  /\ last' = [last EXCEPT !.arg.pc[c] = "done",
                          !.ret[c] = heap[last.self].hashCode]
  /\ UNCHANGED heap

\* a program that builds an instance and has two callers take its hash, their
\* statements interleaved in every order
NextRace ==
  \/ Untouched /\ \E numbers \in ReadInputs : CallNew(numbers)
  \/ \E o \in Objects : RaceStart(o)
  \/ \E c \in Callers : RaceTest(c)
  \/ \E c \in Callers : RaceAssign(c)
  \/ \E c \in Callers : RaceReturn(c)

SpecRace == Init /\ [][NextRace]_vars

(***************************************************************************)
(* One digit of a created instance replaced, and the result validated.     *)
(***************************************************************************)
\* the two check digits, from the front and from the end, and a digit before
ChangeIndexes == {-2, -1, 8, 9, 10}

ChangeDigits == {Num(d) : d \in 0..9}

\* nine values of Math.random() * 10 of two digits a and b, and the valid ones
ChangeRandoms ==
  {[i \in 1..9 |-> IF i <= k THEN Num(a) ELSE Num(b)] :
     a \in 0..9, b \in 0..9, k \in {0, 3, 8}}
    \cup {[i \in 1..9 |-> Num(Valid[i])]}

\* a program that creates an instance, replaces one digit of it with with()
\* and validates what it holds
NextChange ==
  \/ Untouched /\ \E random \in ChangeRandoms : CallCreate(random)
  \/ last.op = "create"
       /\ \E index \in ChangeIndexes, digit \in ChangeDigits :
            CallWith(last.ret, index, digit)
  \/ \E o \in Objects : CallCheckValidity(o)

SpecChange == Init /\ [][NextChange]_vars

(***************************************************************************)
(* The check digit of a range of an array of digits.                       *)
(***************************************************************************)
CallGetCheckDigit(digits, start, end) ==
  /\ last' = [op |-> "getCheckDigit", self |-> 0, arg |-> <<digits, start, end>>,
              ret |-> getCheckDigit(digits, start, end), threw |-> "none"]
  /\ UNCHANGED heap

\* the digits of an array of numbers that are digits
ints(numbers) == [i \in 1..Len(numbers) |-> numbers[i].int]

\* arrays of digits: the plain constructor inputs, and the valid digits with
\* the first or the last one changed
CheckArrays ==
  {ints(numbers) : numbers \in Plain}
    \cup {[Valid EXCEPT ![1] = d] : d \in {0, 9}}
    \cup {[Valid EXCEPT ![11] = d] : d \in {0, 9}}

\* a program that takes the check digit of a range of an array, and takes it
\* again with the same arguments
NextCheckDigit ==
  \/ Untouched /\ \E digits \in CheckArrays :
       \E start \in 0..Len(digits), end \in 0..Len(digits) :
         CallGetCheckDigit(digits, start, end)
  \/ last.op = "getCheckDigit"
       /\ CallGetCheckDigit(last.arg[1], last.arg[2], last.arg[3])

SpecCheckDigit == Init /\ [][NextCheckDigit]_vars

(***************************************************************************)
(* Every method on one instance and on what with() derives from it.        *)
(***************************************************************************)
CallIterate(o) ==
  /\ last' = [op |-> "iterate", self |-> o, arg |-> <<>>,
              ret |-> iterate(heap[o].digits), threw |-> "none"]
  /\ UNCHANGED heap

CallInputs == {<<>>, nums(Semi), cyc(Valid, MaxInputLen)}

\* the last digit, the first digit, and an index beyond every instance
CallIndexes == {-1, 0, 11}

\* a program whose first call builds an instance, and which then calls every
\* method on the instances it holds
NextCalls ==
  \/ Untouched /\ \E numbers \in CallInputs : CallNew(numbers)
  \/ HasRoom(MaxObjects) /\ \E o \in Objects, index \in CallIndexes, digit \in Replacements :
       CallWith(o, index, digit)
  \/ \E o \in Objects, index \in CallIndexes : CallAt(o, index)
  \/ \E o \in Objects, other \in {Ref(p) : p \in Objects} \cup {[t |-> "null", id |-> 0]} :
       CallEquals(o, other)
  \/ \E o \in Objects : CallHashCode(o)
  \/ \E o \in Objects : CallGetValidity(o)
  \/ \E o \in Objects : CallCheckValidity(o)
  \/ \E o \in Objects : CallFormat(o)
  \/ \E o \in Objects : CallToJSON(o)
  \/ \E o \in Objects : CallToArray(o)
  \/ \E index \in SetIndexes, digit \in SetDigits : CallArraySet(index, digit)
  \/ \E o \in Objects : CallIterate(o)

SpecCalls == Init /\ [][NextCalls]_vars
(***************************************************************************)
(* Properties.                                                             *)
(***************************************************************************)
\* the digits of the instance the last call was made on
selfDigits == heap[last.self].digits

\* the digits of the instance the last call returned
retDigits == heap[last.ret].digits

\* the last call returned an instance (new, from, create or with)
Returned == last.op \in {"new", "from", "create", "with"} /\ last.threw = "none"

AllIdentical(ds) == \A i, j \in 1..Len(ds) : ds[i] = ds[j]

\* C1: every instance that exists after any sequence of new, from, create and
\* with holds between 0 and 11 digits, each an integer in 0..9.
C1_DigitsInRange ==
  \A o \in Objects :
    /\ Len(heap[o].digits) \in 0..11
    /\ \A i \in 1..Len(heap[o].digits) : heap[o].digits[i] \in 0..9

\* with() was handed a negative value and returned a shorter instance
C1_Witness ==
  /\ last.op = "with" /\ last.threw = "none"
  /\ last.arg[2] = Num(-3)
  /\ last.ret # Nil /\ last.ret # last.self
  /\ Len(selfDigits) = 11 /\ Len(retDigits) = 10

\* C2: checkValidity() is true iff the instance has exactly 11 digits that are
\* not all identical and whose digits 9 and 10 equal getCheckDigit over
\* [0,9) and [0,10); equivalently iff no flag of getValidity() is true.
C2_CheckValidity ==
  last.op = "checkValidity" =>
    LET ds == selfDigits
        flags == getValidity(ds)
    IN /\ last.ret = (/\ Len(ds) = 11
                      /\ ~AllIdentical(ds)
                      /\ ds[10] = getCheckDigit(ds, 0, 9)
                      /\ ds[11] = getCheckDigit(ds, 0, 10))
       /\ last.ret = (flags = [valueMissing |-> FALSE, tooShort |-> FALSE,
                               typeMismatch |-> FALSE])

\* checkValidity() returned true
C2_Witness == last.op = "checkValidity" /\ last.ret = TRUE /\ Len(selfDigits) = 11

\* C3: getValidity() returns valueMissing = (no digit), tooShort = (1 to 10
\* digits), typeMismatch = (11 digits and all identical, or a check digit
\* that differs).
C3_GetValidity ==
  last.op = "getValidity" =>
    LET ds == selfDigits IN
    /\ last.ret.valueMissing = (Len(ds) = 0)
    /\ last.ret.tooShort = (Len(ds) \in 1..10)
    /\ last.ret.typeMismatch =
         (/\ Len(ds) = 11
          /\ \/ AllIdentical(ds)
             \/ ds[10] # getCheckDigit(ds, 0, 9)
             \/ ds[11] # getCheckDigit(ds, 0, 10))

\* getValidity() flagged eleven digits whose first check digit is right and
\* whose second is wrong
C3_Witness ==
  /\ last.op = "getValidity" /\ last.ret.typeMismatch
  /\ ~AllIdentical(selfDigits)
  /\ selfDigits[10] = getCheckDigit(selfDigits, 0, 9)
  /\ selfDigits[11] # getCheckDigit(selfDigits, 0, 10)
\* C4: every instance CPF.create() returns, whatever the nine random digits,
\* satisfies checkValidity().  (Fails: nine equal random digits.)
C4_CreateAlwaysValid == last.op = "create" => checkValidity(retDigits)

\* C5: for every digit d the instance built from eleven copies of d is not
\* valid: typeMismatch is true although both check digits match.
C5_IdenticalDigitsInvalid ==
  /\ (last.op = "new" /\ \E d \in 0..9 : last.arg = copies(Num(d), 11)) =>
       /\ Len(retDigits) = 11
       /\ ~checkValidity(retDigits)
       /\ getValidity(retDigits).typeMismatch
       /\ retDigits[10] = getCheckDigit(retDigits, 0, 9)
       /\ retDigits[11] = getCheckDigit(retDigits, 0, 10)
  /\ (last.op = "checkValidity" /\ Len(selfDigits) = 11 /\ AllIdentical(selfDigits)) =>
       last.ret = FALSE

\* checkValidity() returned false on eleven sevens
C5_Witness ==
  /\ last.op = "checkValidity" /\ last.ret = FALSE
  /\ selfDigits = <<7, 7, 7, 7, 7, 7, 7, 7, 7, 7, 7>>

\* C6: a.equals(b) is true iff a and b have the same digit count and the same
\* digit at every index; a.equals(a) is true; equals is false for null,
\* undefined and any value that is no CPF.
C6_Equals ==
  last.op = "equals" =>
    /\ last.arg.t = "CPF" => last.ret = (selfDigits = heap[last.arg.id].digits)
    /\ last.arg = Ref(last.self) => last.ret = TRUE
    /\ last.arg.t # "CPF" => last.ret = FALSE

\* equals returned true for two distinct instances
C6_Witness ==
  /\ last.op = "equals" /\ last.arg.t = "CPF" /\ last.arg.id # last.self
  /\ last.ret = TRUE

\* C7: instances that are equal return equal hashes: the hash depends on the
\* digit sequence only.
C7_EqualHash ==
  /\ \A o, p \in Objects :
       (heap[o].hashCode.set /\ heap[p].hashCode.set
          /\ heap[o].digits = heap[p].digits) =>
         heap[o].hashCode.v = heap[p].hashCode.v
  /\ (last.op = "equals" /\ last.ret = TRUE /\ last.arg # Ref(last.self)) =>
       /\ heap[last.self].hashCode.set /\ heap[last.arg.id].hashCode.set
       /\ heap[last.self].hashCode.v = heap[last.arg.id].hashCode.v
  /\ last.op = "hashCode" =>
       heap[last.self].hashCode = [set |-> TRUE, v |-> last.ret]

\* two distinct instances with the same digits have both been hashed
C7_Witness ==
  \E o, p \in Objects :
    /\ o # p /\ heap[o].digits = heap[p].digits
    /\ heap[o].hashCode.set /\ heap[p].hashCode.set

\* a value the constructor skips: non-finite, or negative remainder
isSkipped(x) == ~isFinite(x) \/ (x.neg /\ x.int % 10 # 0)

\* C8: any construction that yields zero digits returns CPF.Nil, and no
\* second instance without digits ever exists.
C8_NilShared ==
  /\ \A o \in Objects : Len(heap[o].digits) = 0 => o = Nil
  /\ (last.op = "new" /\ \A i \in 1..Len(last.arg) : isSkipped(last.arg[i])) =>
       last.ret = Nil
  /\ (last.op = "from" /\ \A i \in 1..Len(last.arg) : ~isDigitChar(last.arg[i])) =>
       last.ret = Nil

\* new CPF of skipped values returned CPF.Nil while another instance exists
C8_Witness ==
  /\ last.op = "new" /\ Len(last.arg) > 0 /\ last.ret = Nil
  /\ Len(heap) > 1

\* the integer trunc(x) of a finite x
truncated(x) == IF x.neg THEN -x.int ELSE x.int

AllFinite(numbers) == \A i \in 1..Len(numbers) : isFinite(numbers[i])

\* C9 as stated: k <= 11 finite values always yield exactly k digits, the i-th
\* being trunc(x) mod 10 in 0..9.  (Fails: negative values.)
C9_EveryFiniteCoerced ==
  (last.op = "new" /\ Len(last.arg) <= 11 /\ AllFinite(last.arg)) =>
    /\ Len(retDigits) = Len(last.arg)
    /\ \A i \in 1..Len(retDigits) :
         /\ retDigits[i] \in 0..9
         /\ (retDigits[i] - truncated(last.arg[i])) % 10 = 0

\* a finite value whose remainder trunc(x) % 10 is not negative
isKept(x) == isFinite(x) /\ ~(x.neg /\ x.int % 10 # 0)

\* C9 amended: of k <= 11 finite values, those whose remainder trunc(x) % 10
\* is negative are skipped; every other one is stored, in input order, as the
\* digit |trunc(x)| mod 10.
C9_FiniteCoercedOrSkipped ==
  (last.op = "new" /\ Len(last.arg) <= 11 /\ AllFinite(last.arg)) =>
    LET kept == SelectSeq(last.arg, isKept) IN
    /\ Len(retDigits) = Len(kept)
    /\ \A i \in 1..Len(kept) : retDigits[i] = kept[i].int % 10

\* negative, fractional and large finite values: two skipped, five stored
C9_Witness ==
  /\ last.op = "new" /\ last.arg = Mixed
  /\ retDigits = <<3, 0, 5, 0, 7>>

\* C10: non-finite values are skipped without using one of the 11 slots:
\* constructing from S gives the digits of constructing from S without its
\* non-finite values.
C10_NonFiniteSkipped ==
  last.op = "new" =>
    LET finite == SelectSeq(last.arg, isFinite) IN
    retDigits = collect(finite, 1, <<>>)

\* an input of more than 11 values with a non-finite one among the first 11
\* gave eleven digits
C10_Witness ==
  /\ last.op = "new" /\ Len(last.arg) > 11
  /\ \E i \in 1..11 : ~isFinite(last.arg[i])
  /\ Len(retDigits) = 11
\* the index of the last with() call is inside the instance it was made on,
\* counting a negative index from the end
InRange(h) ==
  LET n == Len(h[last.self].digits) IN last.arg[1] < n /\ last.arg[1] >= -n

\* the position (from 1) the index of the last with() call names
Position(h) ==
  IF last.arg[1] >= 0 THEN last.arg[1] + 1
  ELSE Len(h[last.self].digits) + last.arg[1] + 1

\* C18: with(i, v) raises a RangeError for every index i >= n or i < -n and
\* every value v, and leaves every instance as it was.
C18_WithOutOfRange ==
  [][(last'.op = "with"
        /\ LET n == Len(heap[last'.self].digits) IN
           last'.arg[1] >= n \/ last'.arg[1] < -n)
       => (last'.threw = "RangeError" /\ heap' = heap)]_vars

\* with(11, v) on an instance of eleven digits raised a RangeError
C18_Witness ==
  /\ last.op = "with" /\ last.threw = "RangeError"
  /\ last.arg[1] = 11 /\ Len(selfDigits) = 11

\* C19: with(i, v) at an index in range, for any numeric v whose normalised
\* digit differs from the current one, returns an instance of the same digit
\* count whose position i holds trunc(v) mod 10 in 0..9 and whose other
\* positions are as before.  (Fails: a negative or NaN v removes the digit.)
C19_WithReplacesOneDigit ==
  (last.op = "with" /\ InRange(heap) /\ last.ret # last.self) =>
    /\ last.threw = "none"
    /\ Len(retDigits) = Len(selfDigits)
    /\ \A p \in 1..Len(selfDigits) :
         IF p = Position(heap)
         THEN /\ retDigits[p] \in 0..9
              /\ isFinite(last.arg[2]) =>
                   (retDigits[p] - truncated(last.arg[2])) % 10 = 0
         ELSE retDigits[p] = selfDigits[p]

\* C20: with(i, v) at an index in range, when trunc(v) % 10 equals the digit
\* already there, returns the very instance it was called on and creates none.
C20_WithSameDigit ==
  [][(last'.op = "with"
        /\ LET ds == heap[last'.self].digits
               n == Len(ds)
               i == last'.arg[1]
               v == last'.arg[2]
           IN /\ i < n /\ i >= -n
              /\ isFinite(v)
              /\ ~(v.neg /\ v.int % 10 # 0)
              /\ ds[IF i >= 0 THEN i + 1 ELSE n + i + 1] = v.int % 10)
       => (last'.ret = last'.self /\ last'.threw = "none" /\ heap' = heap)]_vars

\* with(-1, 1.5) on an instance that ends in 1 returned that instance
C20_Witness ==
  /\ last.op = "with" /\ last.arg = <<-1, Above(1)>>
  /\ Len(selfDigits) = 11 /\ selfDigits[11] = 1
  /\ last.ret = last.self

\* the first eleven elements of a sequence (all of them when there are fewer)
firstEleven(seq) == SubSeq(seq, 1, IF Len(seq) < 11 THEN Len(seq) ELSE 11)

\* the input values of the last constructor call that give a digit, in order
accepted == SelectSeq(last.arg, isKept)

\* C11: the constructor keeps the first 11 accepted digits in input order and
\* ignores everything after them; an input with more than 11 accepted digits
\* gives the instance built from the first 11 of them.
C11_FirstElevenAccepted ==
  last.op = "new" =>
    /\ last.threw = "none"
    /\ Len(retDigits) = Len(firstEleven(accepted))
    /\ \A i \in 1..Len(retDigits) : retDigits[i] = accepted[i].int % 10
    /\ retDigits = collect(firstEleven(accepted), 1, <<>>)

\* thirteen input values, twelve of them accepted, gave eleven digits
C11_Witness ==
  /\ last.op = "new" /\ Len(last.arg) = 13 /\ Len(accepted) = 12
  /\ Len(retDigits) = 11

\* the decimal-digit characters of the text of the last from() call, in order
digitChars == SelectSeq(last.arg, isDigitChar)

\* the digit a decimal-digit character stands for
valueOf(c) == CHOOSE d \in 0..9 : DigitChars[d + 1] = c

\* C12: from(s) never throws and gives the instance built from the
\* decimal-digit characters of s, left to right, the other characters dropped
\* and the digits cut to the first 11; a text without a digit gives CPF.Nil.
C12_FromKeepsDigitChars ==
  last.op = "from" =>
    /\ last.threw = "none"
    /\ Len(retDigits) = Len(firstEleven(digitChars))
    /\ \A i \in 1..Len(retDigits) : retDigits[i] = valueOf(digitChars[i])
    /\ Len(digitChars) = 0 => last.ret = Nil

\* a text of thirteen digits among other characters gave the first eleven
C12_Witness ==
  /\ last.op = "from" /\ Len(digitChars) = 13 /\ Len(last.arg) > 13
  /\ Len(retDigits) = 11 /\ retDigits[11] = valueOf(digitChars[11])

\* C13: for every instance c, of 0 to 11 digits, CPF.from(c.toJSON()) equals
\* c and has as many digits as c.
C13_FromToJSON ==
  [][(last.op = "toJSON" /\ last'.op = "from" /\ last'.arg = last.ret)
       => /\ equals(heap', last.self, Ref(last'.ret)).ret
          /\ Len(heap'[last'.ret].digits) = Len(heap[last.self].digits)]_vars

\* the text of an instance of eleven digits that starts with 0 was parsed back
\* into a second instance of the same digits
C13_Witness ==
  /\ last.op = "from" /\ Len(last.arg) = 11 /\ last.arg[1] = "0"
  /\ \E o \in Objects : o # last.ret /\ heap[o].digits = retDigits

\* every value of the input is one of the digits 0..9
AllDigits(numbers) ==
  \A i \in 1..Len(numbers) :
    isFinite(numbers[i]) /\ ~numbers[i].neg /\ ~numbers[i].frac /\ numbers[i].int <= 9

\* C14: for an input D of digits 0..9, new CPF(D).toArray() is the first 11
\* elements of D, and a change the caller makes to the returned array leaves
\* every instance as it was.
C14_ToArrayFreshCopy ==
  [][/\ (last.op = "new" /\ AllDigits(last.arg)
           /\ last'.op = "toArray" /\ last'.self = last.ret)
        => /\ Len(last'.ret.items) = Len(firstEleven(last.arg))
           /\ \A i \in 1..Len(last'.ret.items) :
                last'.ret.items[i] = last.arg[i].int
     /\ last'.op = "set" => heap' = heap]_vars

\* the caller changed the array of an instance of eleven digits: the array and
\* the instance now differ
C14_Witness ==
  /\ last.op = "set" /\ Len(selfDigits) = 11
  /\ last.ret.items # selfDigits

\* how many separators format() writes before the digit at position i (from 0)
separatorsBefore(i) ==
  (IF i >= 3 THEN 1 ELSE 0) + (IF i >= 6 THEN 1 ELSE 0) + (IF i >= 9 THEN 1 ELSE 0)

\* C15: format() of n digits writes the digits in order, with "." before the
\* digit at position 3 when n >= 3, "." before position 6 when n >= 6 and "-"
\* before position 9 when n >= 9: nothing for n = 0, ###.###.###-## for n = 11,
\* and text that ends with the separator for n = 3, 6, 9.
C15_Format ==
  last.op = "format" =>
    LET n == Len(selfDigits)
        out == last.ret
    IN /\ Len(out) = n + separatorsBefore(n)
       /\ \A i \in 0..(n - 1) :
            out[i + separatorsBefore(i) + 1] = String(selfDigits[i + 1])
       /\ n >= 3 => out[4] = "."
       /\ n >= 6 => out[8] = "."
       /\ n >= 9 => out[12] = "-"

\* format() of nine digits ended with "-"
C15_Witness ==
  /\ last.op = "format" /\ Len(selfDigits) = 9
  /\ Len(last.ret) = 12 /\ last.ret[12] = "-"

\* C16: toJSON() returns the text of exactly the stored digits: as many
\* characters as digits, the i-th character the i-th digit, "" for no digit.
C16_ToJSON ==
  last.op = "toJSON" =>
    /\ Len(last.ret) = Len(selfDigits)
    /\ \A i \in 1..Len(selfDigits) : last.ret[i] = String(selfDigits[i])

\* toJSON() of the eleven digits 31675745501
C16_Witness ==
  /\ last.op = "toJSON" /\ selfDigits = Valid
  /\ last.ret = <<"3", "1", "6", "7", "5", "7", "4", "5", "5", "0", "1">>

\* C17: at(i) on n digits never throws; it returns the digit at i when
\* 0 <= i < n, the digit at n + i when -n <= i < 0, and undefined otherwise.
C17_At ==
  last.op = "at" =>
    LET n == Len(selfDigits)
        i == last.arg[1]
    IN /\ last.threw = "none"
       /\ (0 <= i /\ i < n) => last.ret = Some(selfDigits[i + 1])
       /\ (-n <= i /\ i < 0) => last.ret = Some(selfDigits[n + i + 1])
       /\ (i >= n \/ i < -n) => last.ret = Undefined

\* at(-11) on eleven digits returned the first digit
C17_Witness ==
  /\ last.op = "at" /\ last.arg[1] = -11 /\ Len(selfDigits) = 11
  /\ last.ret = Some(selfDigits[1])

\* C21: the digits of an instance never change after construction: no call
\* (with, at, equals, hashCode, getValidity, checkValidity, format, toJSON,
\* toArray and a write into its result, iteration) changes the length or the
\* digits of an existing instance, and none removes an instance; with(i, v)
\* leaves the digits of the instance it is called on as they were.
C21_DigitsNeverChange ==
  [][/\ Len(heap') >= Len(heap)
     /\ \A o \in 1..Len(heap) :
          /\ heap'[o].digits = heap[o].digits
          /\ toArray(heap'[o].digits) = toArray(heap[o].digits)]_vars

\* with() gave an instance of other digits and 31675745501 still has its own
C21_Witness ==
  /\ last.op = "with" /\ last.threw = "none" /\ last.ret # last.self
  /\ selfDigits = Valid /\ retDigits # Valid

\* the nine digits create() drew: Math.trunc(Math.random() * 10), nine times
generated == [i \in 1..9 |-> truncated(last.arg[i])]

\* C22: create() returns an instance of exactly 11 digits: the nine generated
\* digits, each in 0..9, then getCheckDigit of those nine, then getCheckDigit
\* of the resulting ten.
C22_CreateDigits ==
  last.op = "create" =>
    /\ Len(retDigits) = 11
    /\ \A i \in 1..9 : retDigits[i] = generated[i] /\ retDigits[i] \in 0..9
    /\ retDigits[10] = getCheckDigit(generated, 0, 9)
    /\ retDigits[11] = getCheckDigit(SubSeq(retDigits, 1, 10), 0, 10)

\* create() drew 316757455 and returned 31675745501
C22_Witness ==
  /\ last.op = "create" /\ generated = SubSeq(Valid, 1, 9)
  /\ retDigits = Valid

C28_FlagsExclusive ==
  last.op = "getValidity" =>
    LET v == last.ret IN
    /\ ~(v.valueMissing /\ v.tooShort)
    /\ ~(v.valueMissing /\ v.typeMismatch)
    /\ ~(v.tooShort /\ v.typeMismatch)
    /\ Len(selfDigits) < 11 => (v.valueMissing # v.tooShort)

\* getValidity() on ten identical digits: tooShort alone
C28_Witness ==
  /\ last.op = "getValidity" /\ Len(selfDigits) = 10 /\ AllIdentical(selfDigits)
  /\ last.ret = [valueMissing |-> FALSE, tooShort |-> TRUE, typeMismatch |-> FALSE]

RECURSIVE sumOfProducts(_, _, _, _)
\* the sum of digits[i] * (end + 1 - i) over the indexes i (from 0) of
\* [start, upto), taken from the last index down
sumOfProducts(digits, start, upto, end) ==
  IF upto <= start THEN 0
  ELSE digits[upto] * (end + 2 - upto) + sumOfProducts(digits, start, upto - 1, end)

\* the arguments of the last getCheckDigit call
checked == [digits |-> last.arg[1], start |-> last.arg[2], end |-> last.arg[3]]

\* C23: getCheckDigit(digits, start, end) is 0 when rem < 2 and 11 - rem
\* otherwise, rem being the sum over i in [start, end) of
\* digits[i] * (end + 1 - i) modulo 11; the result is a function of the
\* arguments alone and the call changes nothing.
C23_CheckDigitFormula ==
  [][last'.op = "getCheckDigit" =>
       LET digits == last'.arg[1]
           start == last'.arg[2]
           end == last'.arg[3]
           rem11 == sumOfProducts(digits, start, end, end) % 11
       IN /\ last'.ret = IF rem11 < 2 THEN 0 ELSE 11 - rem11
          /\ (last.op = "getCheckDigit" /\ last.arg = last'.arg) =>
               last'.ret = last.ret
          /\ heap' = heap]_vars

\* getCheckDigit(31675745501, 0, 10) returned 1, the remainder being 10
C23_Witness ==
  /\ last.op = "getCheckDigit" /\ checked.digits = Valid
  /\ checked.start = 0 /\ checked.end = 10 /\ last.ret = 1
  /\ sumOfProducts(Valid, 0, 10, 10) % 11 = 10

\* the arrays a and b hold the same digits at the indexes of [start, end)
sameInRange(a, b, start, end) ==
  /\ Len(a) >= end /\ Len(b) >= end
  /\ \A i \in (start + 1)..end : a[i] = b[i]

\* C30: for digits in 0..9 and 0 <= start <= end <= digits.length,
\* getCheckDigit returns an integer in 0..9, never 10 or 11, and the result
\* depends only on the digits at the indexes of [start, end).
C30_CheckDigitRange ==
  (last.op = "getCheckDigit" /\ checked.start <= checked.end) =>
    /\ last.ret \in 0..9
    /\ \A other \in CheckArrays :
         sameInRange(other, checked.digits, checked.start, checked.end) =>
           getCheckDigit(other, checked.start, checked.end) = last.ret

\* a range whose sum has remainder 1 gave the check digit 0
C30_Witness ==
  /\ last.op = "getCheckDigit" /\ checked.start <= checked.end
  /\ sumOfProducts(checked.digits, checked.start, checked.end, checked.end) % 11 = 1
  /\ last.ret = 0

\* C24: the hash cache is filled lazily and is stable: a cached hash is unset
\* or the hash of the digits; the first hashCode() or equals() that needs it
\* sets it; once set it never changes; every hashCode() on an instance
\* returns the same value.
C24_HashCacheStable ==
  [][/\ \A o \in 1..Len(heap') :
          heap'[o].hashCode.set =>
            heap'[o].hashCode.v = hashSequence(heap'[o].digits, seed)
     /\ \A o \in 1..Len(heap) :
          heap[o].hashCode.set => heap'[o].hashCode = heap[o].hashCode
     /\ \A o \in (Len(heap) + 1)..Len(heap') : ~heap'[o].hashCode.set
     /\ last'.op = "hashCode" =>
          /\ heap'[last'.self].hashCode = [set |-> TRUE, v |-> last'.ret]
          /\ heap[last'.self].hashCode.set =>
               last'.ret = heap[last'.self].hashCode.v
     /\ (last'.op = "equals" /\ last'.arg.t = "CPF" /\ last'.arg.id # last'.self) =>
          /\ heap'[last'.self].hashCode.set
          /\ heap'[last'.arg.id].hashCode.set]_vars

\* hashCode() has set the cache of one instance while another instance, which
\* has digits, is still without a hash
C24_Witness ==
  /\ last.op = "hashCode" /\ heap[last.self].hashCode.set
  /\ \E p \in Objects : Len(heap[p].digits) > 0 /\ ~heap[p].hashCode.set

\* C25: when two callers interleave their first hashCode() calls on one
\* instance, both finding the cache unset before either writes it, both
\* return the same value and the cache ends up holding it: the hash of the
\* digits, computed twice.
C25_RaceIsRedundant ==
  last.op = "race" =>
    /\ \A c \in Callers :
         last.arg.pc[c] = "done" =>
           last.ret[c] =
             [set |-> TRUE, v |-> hashSequence(selfDigits, seed)]
    /\ (\A c \in Callers : last.arg.pc[c] = "done") =>
         /\ last.ret[1] = last.ret[2]
         /\ heap[last.self].hashCode = last.ret[1]

\* both callers found the cache of an instance of eleven digits unset, and
\* both have returned
C25_Witness ==
  /\ last.op = "race" /\ Len(selfDigits) = 11
  /\ last.arg.pc = <<"done", "done">>
  /\ last.arg.unset = <<TRUE, TRUE>>

\* a text without its "." and "-" characters
withoutSeparators(str) == SelectSeq(str, LAMBDA c : c \notin {".", "-"})

\* C26: formatting round-trips through parsing: for every instance c, of 0 to
\* 11 digits, CPF.from(c.format()) equals c, and c.format() without its "."
\* and "-" characters is c.toJSON().
C26_FromFormat ==
  [][(last.op = "format" /\ last'.op = "from" /\ last'.arg = last.ret)
       => /\ withoutSeparators(last.ret) = toJSON(heap[last.self].digits)
          /\ equals(heap', last.self, Ref(last'.ret)).ret
          /\ heap'[last'.ret].digits = heap[last.self].digits]_vars

\* the formatted text of 31675745501, fourteen characters, was parsed back
\* into a second instance of the same digits
C26_Witness ==
  /\ last.op = "from" /\ Len(last.arg) = 14 /\ retDigits = Valid
  /\ \E o \in Objects : o # last.ret /\ heap[o].digits = Valid

\* the pairs of last digits for which both comparisons of getValidity succeed
\* after the nine digits of prefix
matchingPairs(prefix) ==
  {pair \in (0..9) \X (0..9) :
     LET eleven == prefix \o <<pair[1], pair[2]>> IN
     /\ getCheckDigit(eleven, 0, 9) = eleven[10]
     /\ getCheckDigit(eleven, 0, 10) = eleven[11]}

\* changed is original, eleven digits, with its last or its second-to-last
\* digit, and no other, replaced by a different one
oneOfLastTwoReplaced(changed, original) ==
  /\ Len(changed) = 11 /\ Len(original) = 11
  /\ \E p \in {10, 11} :
       \A i \in 1..11 : (changed[i] = original[i]) <=> (i # p)

\* C29: the two check digits are determined by the first nine digits: exactly
\* one pair of last digits passes both comparisons, so a valid CPF with only
\* its last, or only its second-to-last, digit replaced by another digit
\* (via with) has checkValidity() false.
C29_CheckDigitsDetermined ==
  /\ last.op = "create" =>
       Cardinality(matchingPairs(SubSeq(retDigits, 1, 9))) = 1
  /\ (last.op = "with" /\ last.threw = "none" /\ last.ret # last.self
        /\ last.arg[1] \in {-2, -1, 9, 10} /\ checkValidity(selfDigits)) =>
       /\ oneOfLastTwoReplaced(retDigits, selfDigits)
       /\ ~checkValidity(retDigits)
  /\ last.op = "checkValidity" =>
       \A p \in Objects :
         (checkValidity(heap[p].digits)
            /\ oneOfLastTwoReplaced(selfDigits, heap[p].digits)) =>
           last.ret = FALSE

\* 31675745501 with its second-to-last digit replaced by 7 is not valid
C29_Witness ==
  /\ last.op = "checkValidity" /\ last.ret = FALSE
  /\ selfDigits = [Valid EXCEPT ![10] = 7]
  /\ \E o \in Objects : heap[o].digits = Valid
====
